---- MODULE Spec2Model ----
(***************************************************************************)
(* One orchestration call of Transcriptor (transcriptor/core.py) together  *)
(* with the AudioProcessor operations it drives (transcriptor/audio.py).   *)
(* The file system is the set of paths that exist; every external outcome  *)
(* (ffprobe, ffmpeg, the HTTP service, the download) is an input drawn     *)
(* from a small set at the step that consumes it.                          *)
(***************************************************************************)
EXTENDS Integers, Sequences, FiniteSets, TLC

VARIABLES
    command,          \* sys.argv[1] of cli.py, or "lib" when the library is called
    config_ok,        \* cli.py: whether the configuration or arguments can be read
    api_key,          \* api_key given to the constructor
    ffmpeg_present,   \* whether the ffmpeg binary is on the search path
    probe_values,     \* durations ffprobe can report for the working file
    chunk_duration,   \* create_chunks: chunk_duration
    overlap,          \* create_chunks: overlap
    src,              \* kind of source: "path" | "stream" | "url"
    fileobj,          \* shape of the file-like object: "read" | "file" | "none"
    input_ext,        \* suffix of the caller's path
    chunk_request,    \* chunk_if_needed as passed by the caller
    format,           \* response format requested
    language,         \* language requested
    prompt,           \* prompt requested
    fs,               \* paths that exist on disk
    pc,               \* position of the call
    filepath,         \* argument of _transcribir_archivo
    chunk_if_needed,  \* argument of _transcribir_archivo
    audio_path,       \* working file of _transcribir_archivo
    duration,         \* value returned by the probe of _transcribir_archivo
    size,             \* os.path.getsize(audio_path) in bytes, None before it is read
    chunk_probe,      \* value returned by the probe inside create_chunks
    num_chunks,       \* create_chunks: num_chunks
    i,                \* create_chunks: loop variable
    chunks,           \* list returned by create_chunks
    k,                \* _transcribir_chunks: position of enumerate(chunks, 1)
    texts,            \* _transcribir_chunks: texts
    inflight,         \* paths whose upload has been posted and not answered
    waited,           \* time the pending request has been blocking
    result,           \* dict returned to the caller, or None
    error,            \* exception that reached the caller, or None
    stdout,           \* what has been printed: "line" (free text) or "json"
    exit_code,        \* exit code of the cli.py process, None while it runs
    created,          \* history: temporary files this call created
    planned,          \* history: windows (start, end) computed by create_chunks
    dropped,          \* history: indices whose materialization failed
    uploads,          \* history: paths posted to the service, in order
    sent,             \* history: the data fields of every request, in order
    peer_pc,          \* position of a second call running at the same time
    peer_reading,     \* paths the second call has open for reading
    answers           \* history: status of every answer received, in order

vars == <<command, config_ok, api_key, ffmpeg_present, probe_values, chunk_duration,
          overlap, stdout, exit_code, src, fileobj, input_ext, chunk_request, format, fs, pc, filepath,
          chunk_if_needed, audio_path, duration, size, chunk_probe, num_chunks,
          i, chunks, k, texts, inflight, waited, result, error, created,
          planned, dropped, uploads, answers, language, prompt, sent,
          peer_pc, peer_reading>>

(***************************************************************************)
(* Bounds of the model.                                                    *)
(***************************************************************************)
\* probed durations are multiples of 150 seconds, up to MaxDurationSteps of them
MaxDurationSteps == 4
\* a pending request blocks for at most MaxLatency ticks before it is answered
MaxLatency == 1

\* create_chunks called on its own: durations 1..MaxPlanDuration, chunk
\* durations 1..MaxPlanWindow and overlaps 0..MaxPlanWindow, in seconds
MaxPlanDuration == 8
MaxPlanWindow == 4

\* Python's None and a present value, as sequences of length 0 and 1
None == <<>>
Some(x) == <<x>>

(***************************************************************************)
(* Program constants.                                                      *)
(***************************************************************************)
MAX_FILE_SIZE_MB == 25
CHUNK_DURATION == 4 * 60
OVERLAP == 15
MB == 1024 * 1024

VIDEO_EXTENSIONS == {".mp4", ".mov", ".avi", ".mkv", ".webm",
                     ".flv", ".wmv", ".m4v", ".mpg", ".mpeg"}

(***************************************************************************)
(* Paths.  Every temporary name is fresh, so one call names them by kind   *)
(* (and, for chunk segments, by the index in the suffix).                  *)
(***************************************************************************)
InputFile == <<"input", 0>>
TmpFile == <<"tmp", 0>>
WavFile == <<"wav", 0>>
ChunkFile(n) == <<"chunk", n>>

Suffix(p) ==
    CASE p[1] = "input" -> input_ext
      [] p[1] = "tmp" -> ".tmp"
      [] OTHER -> ".wav"

\* AudioProcessor.is_video
is_video(p) == Suffix(p) \in VIDEO_EXTENSIONS

(***************************************************************************)
(* Inputs from the environment.                                            *)
(***************************************************************************)
\* what float(result.stdout.strip()) can be; None when ffprobe fails
Durations == {150 * n : n \in 0..MaxDurationSteps}

\* subprocess.run(ffprobe, check=True) and float(...): the binary is missing,
\* it exits non-zero, its output is no number, or a duration is read
ProbeRuns ==
    {<<"missing">>, <<"nonzero">>, <<"unparsable">>}
    \cup {<<"ok", d>> : d \in probe_values}

\* the failure of the probe handed to the caller as an exception
get_duration_Raising(run) ==
    IF run[1] = "ok" THEN Some(run[2]) ELSE <<"Exception", "ffprobe">>

\* get_duration: the float, or None from the except Exception handler
get_duration(run) == IF run[1] = "ok" THEN Some(run[2]) ELSE None

\* what a call of get_duration gives its caller
ProbeOutcomes == {get_duration(run) : run \in ProbeRuns}

\* an exception, as opposed to a returned value
IsRaised(d) == Len(d) = 2

\* subprocess.run(ffmpeg, check=True): returns, raises CalledProcessError,
\* or raises FileNotFoundError when the binary is not on the search path
FfmpegOutcomes == IF ffmpeg_present THEN {"ok", "nonzero"} ELSE {"missing"}

\* os.path.getsize(audio_path): below, at and just above the limit
Sizes == {10 * MB, MAX_FILE_SIZE_MB * MB, MAX_FILE_SIZE_MB * MB + 1}

Texts == {"uno", "dos"}
Segments == {<<>>, <<[start |-> 65, end |-> 130, text |-> " tres "]>>}
Statuses == {200, 429}

\* what requests.post can return for a request with this response_format
Responses(fmt) ==
    { r \in [status : Statuses, text : Texts, segments : Segments] :
        (r.status # 200 \/ fmt # "verbose_json") => r.segments = <<>> }

\* requests.post raising instead of returning (connection error, timeout)
NoResponse == [status |-> 0, text |-> "timeout", segments |-> <<>>]

PostOutcomes(fmt) == Responses(fmt) \cup {NoResponse}

(***************************************************************************)
(* Pure parts of the code.                                                 *)
(***************************************************************************)
\* Python truth value of a probed duration: None and 0.0 are false
Falsy(d) == d = None \/ d[1] = 0

\* math.ceil(a / b) for a >= 0 and b # 0
Ceil(a, b) == IF b > 0 THEN -((-a) \div b) ELSE -(a \div (-b))

\* min(a, b)
Min(a, b) == IF a < b THEN a ELSE b

\* the quotient rounded down
NumChunks_Floor(d, length, shared) == d \div (length - shared)

\* create_chunks: num_chunks
NumChunks(d, length, shared) == Ceil(d, length - shared)

\* the overlap added to the stride instead of taken from it
Window_Skipping(n, d, length, shared) ==
    LET start_time == n * (length + shared)
        end_time == IF start_time + length < d THEN start_time + length ELSE d
    IN  <<start_time, end_time>>

\* create_chunks: (start_time, end_time) of iteration n
Window(n, d, length, shared) ==
    LET start_time == n * (length - shared)
        end_time == Min(start_time + length, d)
    IN  <<start_time, end_time>>

\* the size test admitting a file of exactly the limit
UseChunks_AtLeast(bytes, allow) == bytes >= MAX_FILE_SIZE_MB * MB /\ allow

\* _transcribir_archivo: size_mb > self.MAX_FILE_SIZE_MB and chunk_if_needed.
\* size_mb is bytes / 2^20, an exact division, so the test is on the bytes.
UseChunks(bytes, allow) == bytes > MAX_FILE_SIZE_MB * MB /\ allow

\* sep.join(list)
RECURSIVE Join(_, _)
Join(list, sep) ==
    IF list = <<>> THEN ""
    ELSE IF Len(list) = 1 THEN list[1]
    ELSE list[1] \o sep \o Join(Tail(list), sep)

\* the texts joined by a single line break
JoinTexts_SingleNewline(list) == Join(list, "\n")

\* _transcribir_chunks: full_text
JoinTexts(list) == Join(list, "\n\n")

\* f"{n:02d}"
TwoDigits(n) == IF n < 10 THEN "0" \o ToString(n) ELSE ToString(n)

\* str.strip() on the segment texts the service can send
Strip(s) == IF s = " tres " THEN "tres" ELSE s

\* _format_verbose: the line of one segment
SegmentLine(seg) ==
    "[" \o TwoDigits(seg.start \div 60) \o ":" \o TwoDigits(seg.start % 60)
        \o " - " \o TwoDigits(seg.end \div 60) \o ":" \o TwoDigits(seg.end % 60)
        \o "] " \o Strip(seg.text)

\* _format_verbose
FormatVerbose(r) ==
    Join(<<"=== TRANSCRIPCION COMPLETA ===\n", r.text,
           "\n\n=== SEGMENTOS CON TIMESTAMPS ===\n">>
         \o [n \in 1..Len(r.segments) |-> SegmentLine(r.segments[n])], "\n")

\* the status test accepting every answer that carries a status
ApiOk_AnyStatus(r) == r.status >= 200

\* _call_api: response.status_code == 200
ApiOk(r) == r.status = 200

\* _call_api: the value returned on status 200
ApiText(r, fmt) == IF fmt = "verbose_json" THEN FormatVerbose(r) ELSE r.text

\* _call_api: the exception raised on any other status
ApiError(r) ==
    [type |-> "Exception",
     message |-> "Error de API Groq: " \o ToString(r.status) \o " - " \o r.text]

\* the list walked from its end
ChunkAt_Reversed(list, n) == list[Len(list) + 1 - n]

\* enumerate(chunks, 1): the path of iteration n
ChunkAt(list, n) == list[n]

\* the dict built at the end of _transcribir_archivo
DirectResult(text, d) ==
    [text |-> text, duration |-> d, success |-> TRUE, chunks |-> 1]

\* the dict built at the end of _transcribir_chunks
ChunkedResult(list, d, cs) ==
    [text |-> JoinTexts(list), duration |-> d, success |-> TRUE, chunks |-> Len(cs)]

\* the finally blocks of _transcribir_fileobject and transcribir_url
Finally(files) == IF src \in {"stream", "url"} THEN files \ {TmpFile} ELSE files

(***************************************************************************)
(* The state before the constructor is called.                             *)
(***************************************************************************)
inputs == <<command, config_ok, api_key, ffmpeg_present, probe_values, chunk_duration,
            overlap, src, fileobj, input_ext, chunk_request, format, language, prompt>>
locals == <<filepath, chunk_if_needed, audio_path, duration, size>>
chunking == <<chunk_probe, num_chunks, i, chunks, planned, dropped>>
upload == <<k, texts, inflight, waited, uploads, answers, sent>>
peer == <<peer_pc, peer_reading>>

\* _transcribir_archivo has not been entered
FreshLocals ==
    /\ filepath = None
    /\ chunk_if_needed = TRUE
    /\ audio_path = None
    /\ duration = None
    /\ size = None

\* nothing else has run yet
FreshRest ==
    /\ chunk_probe = None
    /\ num_chunks = 0
    /\ i = 0
    /\ chunks = <<>>
    /\ k = 1
    /\ texts = <<>>
    /\ inflight = {}
    /\ waited = 0
    /\ result = None
    /\ error = None
    /\ created = {}
    /\ planned = <<>>
    /\ dropped = {}
    /\ uploads = <<>>
    /\ answers = <<>>
    /\ sent = <<>>
    /\ stdout = <<>>
    /\ exit_code = None

\* no other call runs at the same time
NoPeer ==
    /\ peer_pc = "Idle"
    /\ peer_reading = {}

\* a program that constructs a Transcriptor and makes one call on it
Init ==
    /\ command = "lib"
    /\ config_ok = TRUE
    /\ api_key \in {"", "gsk"}
    /\ ffmpeg_present \in BOOLEAN
    /\ probe_values = Durations
    /\ chunk_duration = CHUNK_DURATION
    /\ overlap = OVERLAP
    /\ src \in {"path", "stream", "url"}
    /\ fileobj \in (IF src = "stream" THEN {"read", "file", "none"} ELSE {"none"})
    /\ input_ext \in (IF src = "path" THEN {".mp3", ".mp4"} ELSE {".tmp"})
    /\ chunk_request \in (IF src = "url" THEN {TRUE} ELSE BOOLEAN)
    /\ format \in (IF src = "url" THEN {"json"} ELSE {"json", "verbose_json"})
    /\ fs \in (IF src = "path" THEN {{}, {InputFile}} ELSE {{}})
    /\ language = "es"
    /\ prompt = ""
    /\ pc = "Constructing"
    /\ FreshLocals
    /\ FreshRest
    /\ NoPeer

\* print(...)
Emit(x) == stdout' = Append(stdout, x)

\* an exception leaves the call: before the try blocks nothing is cleaned
RaiseEarly(e, files) ==
    /\ pc' = "Failed"
    /\ error' = Some(e)
    /\ fs' = files
    /\ UNCHANGED result

\* the exception swallowed and the failed step left to be taken again
Raise_Retry(e, files) ==
    /\ pc' = pc
    /\ error' = error
    /\ fs' = files
    /\ UNCHANGED result

\* the exception swallowed and the call ended as if it had returned
Raise_AsDone(e, files) ==
    /\ pc' = "Done"
    /\ error' = Some(e)
    /\ fs' = Finally(files)
    /\ UNCHANGED result

\* an exception leaves _transcribir_archivo and passes the finally blocks
Raise(e, files) ==
    /\ pc' = "Failed"
    /\ error' = Some(e)
    /\ fs' = Finally(files)
    /\ UNCHANGED result

\* a dict is returned from _transcribir_archivo through the finally blocks
Return(r, files) ==
    /\ pc' = "Done"
    /\ result' = Some(r)
    /\ fs' = Finally(files)
    /\ UNCHANGED error

(***************************************************************************)
(* Construction, and resolving the source.                                 *)
(***************************************************************************)
\* __init__: if not api_key
KeyMissing(key) == key = ""

\* Transcriptor(api_key=...)
Construct ==
    /\ pc = "Constructing"
    /\ command = "lib"
    /\ IF KeyMissing(api_key)
       THEN RaiseEarly([type |-> "ValueError", message |-> "API Key es requerida"], fs)
       ELSE /\ pc' = "Resolving"
            /\ UNCHANGED <<fs, result, error>>
    /\ UNCHANGED <<inputs, peer, locals, chunking, upload, created, stdout, exit_code>>

\* transcribir with a str
Transcribir ==
    /\ pc = "Resolving"
    /\ src = "path"
    /\ IF InputFile \notin fs
       THEN /\ RaiseEarly([type |-> "FileNotFoundError",
                           message |-> "Archivo no encontrado"], fs)
            /\ UNCHANGED <<filepath, chunk_if_needed>>
       ELSE /\ filepath' = Some(InputFile)
            /\ chunk_if_needed' = chunk_request
            /\ pc' = "Classifying"
            /\ UNCHANGED <<fs, result, error>>
    /\ UNCHANGED <<inputs, peer, audio_path, duration, size, chunking, upload, created,
                   stdout, exit_code>>

\* the caller's flag handed on unchanged
ForcedChunkFlag_AsRequested(requested) == requested

\* chunk_if_needed as _transcribir_fileobject and transcribir_url hand it on:
\* the literal True, and the default of transcribir
ForcedChunkFlag(requested) == TRUE

\* transcribir with anything else: _transcribir_fileobject
TranscribirFileobject ==
    /\ pc = "Resolving"
    /\ src = "stream"
    /\ created' = created \cup {TmpFile}
    /\ IF fileobj = "none"
       THEN /\ RaiseEarly([type |-> "ValueError",
                           message |-> "Tipo de archivo no soportado"],
                          fs \cup {TmpFile})
            /\ UNCHANGED <<filepath, chunk_if_needed>>
       ELSE /\ fs' = fs \cup {TmpFile}
            /\ filepath' = Some(TmpFile)
            /\ chunk_if_needed' = ForcedChunkFlag(chunk_request)
            /\ pc' = "Classifying"
            /\ UNCHANGED <<result, error>>
    /\ UNCHANGED <<inputs, peer, audio_path, duration, size, chunking, upload, stdout,
                   exit_code>>

\* transcribir_url: the download, then transcribir(tmp_path, ...)
TranscribirUrl ==
    /\ pc = "Resolving"
    /\ src = "url"
    /\ created' = created \cup {TmpFile}
    /\ Emit("line")
    /\ \E downloaded \in BOOLEAN :
         IF ~downloaded
         THEN /\ RaiseEarly([type |-> "URLError", message |-> "urlretrieve"],
                            fs \cup {TmpFile})
              /\ UNCHANGED <<filepath, chunk_if_needed>>
         ELSE /\ fs' = fs \cup {TmpFile}
              /\ filepath' = Some(TmpFile)
              /\ chunk_if_needed' = ForcedChunkFlag(chunk_request)
              /\ pc' = "Classifying"
              /\ UNCHANGED <<result, error>>
    /\ UNCHANGED <<inputs, peer, audio_path, duration, size, chunking, upload, exit_code>>

(***************************************************************************)
(* _transcribir_archivo                                                    *)
(***************************************************************************)
\* is_video and extract_audio
ExtractAudio ==
    /\ pc = "Classifying"
    /\ IF is_video(filepath[1])
       THEN /\ created' = created \cup {WavFile}
            /\ Emit("line")
            /\ \E outcome \in FfmpegOutcomes :
                 CASE outcome = "ok" ->
                        /\ audio_path' = Some(WavFile)
                        /\ fs' = fs \cup {WavFile}
                        /\ pc' = "Probing"
                        /\ UNCHANGED <<result, error>>
                   [] outcome = "nonzero" ->
                        /\ Raise([type |-> "Exception",
                                  message |-> "Error extrayendo audio"], fs)
                        /\ UNCHANGED audio_path
                   [] outcome = "missing" ->
                        /\ Raise([type |-> "FileNotFoundError",
                                  message |-> "ffmpeg"], fs \cup {WavFile})
                        /\ UNCHANGED audio_path
       ELSE /\ audio_path' = filepath
            /\ pc' = "Probing"
            /\ UNCHANGED <<fs, result, error, created, stdout>>
    /\ UNCHANGED <<inputs, peer, filepath, chunk_if_needed, duration, size, chunking, upload,
                   exit_code>>

\* get_duration(audio_path)
GetDuration ==
    /\ pc = "Probing"
    /\ \E d \in ProbeOutcomes :
         IF IsRaised(d)
         THEN /\ Raise([type |-> d[1], message |-> d[2]], fs)
              /\ UNCHANGED <<duration, stdout>>
         ELSE /\ duration' = d
              /\ IF d = None THEN Emit("line") ELSE UNCHANGED stdout
              /\ pc' = "SizeDecision"
              /\ UNCHANGED <<fs, result, error>>
    /\ UNCHANGED <<inputs, peer, filepath, chunk_if_needed, audio_path, size,
                   chunking, upload, created, exit_code>>

\* os.path.getsize and the branch on it
SizeDecision ==
    /\ pc = "SizeDecision"
    /\ \E bytes \in Sizes :
         /\ size' = Some(bytes)
         /\ IF UseChunks(bytes, chunk_if_needed)
            THEN pc' = "Chunking" /\ Emit("line")
            ELSE pc' = "DirectTranscribe" /\ UNCHANGED stdout
    /\ UNCHANGED <<inputs, peer, fs, filepath, chunk_if_needed, audio_path, duration,
                   chunking, upload, result, error, created, exit_code>>

(***************************************************************************)
(* _call_api, in two steps: the request is posted, then it is answered.    *)
(***************************************************************************)
\* model = model or self.default_model, with the default of __init__
DefaultModel == "whisper-large-v3-turbo"

\* the language field sent whatever the language is
RequestData_AlwaysLanguage(lang, prm, fmt) ==
    {<<"model", DefaultModel>>, <<"response_format", fmt>>, <<"language", lang>>}
    \cup (IF prm # "" THEN {<<"prompt", prm>>} ELSE {})

\* _call_api: the dict data, as a set of (field, value)
RequestData(lang, prm, fmt) ==
    {<<"model", DefaultModel>>, <<"response_format", fmt>>}
    \cup (IF lang # "" /\ lang # "auto" THEN {<<"language", lang>>} ELSE {})
    \cup (IF prm # "" THEN {<<"prompt", prm>>} ELSE {})

\* open(filepath, 'rb') and requests.post(...) up to the point where it blocks
Post(path) ==
    IF path \notin fs
    THEN /\ Raise([type |-> "FileNotFoundError", message |-> "open"], fs)
         /\ UNCHANGED <<inflight, waited, uploads, sent>>
    ELSE /\ inflight' = inflight \cup {path}
         /\ waited' = 0
         /\ uploads' = Append(uploads, path)
         /\ sent' = Append(sent, RequestData(language, prompt, format))
         /\ UNCHANGED <<pc, fs, result, error>>

\* the blocked caller while the request is pending
ApiWait ==
    /\ inflight # {}
    /\ waited < MaxLatency
    /\ waited' = waited + 1
    /\ UNCHANGED <<inputs, peer, locals, chunking, fs, pc, k, texts, inflight,
                   uploads, sent, answers, result, error, created, stdout, exit_code>>

\* _call_api(audio_path, ...) of _transcribir_archivo: the request
DirectPost ==
    /\ pc = "DirectTranscribe"
    /\ inflight = {}
    /\ Post(audio_path[1])
    /\ UNCHANGED <<inputs, peer, locals, chunking, k, texts, answers, created, stdout,
                   exit_code>>

\* _call_api(audio_path, ...) of _transcribir_archivo: the answer, and the dict
DirectAnswer ==
    /\ pc = "DirectTranscribe"
    /\ inflight # {}
    /\ \E r \in PostOutcomes(format) :
         /\ answers' = Append(answers, r)
         /\ IF r = NoResponse
            THEN Raise([type |-> "RequestException", message |-> r.text], fs)
            ELSE IF ApiOk(r)
            THEN Return(DirectResult(ApiText(r, format), duration), fs)
            ELSE Raise(ApiError(r), fs)
    /\ inflight' = {}
    /\ UNCHANGED <<inputs, peer, locals, chunking, k, texts, waited, uploads, sent, created,
                   stdout, exit_code>>

(***************************************************************************)
(* create_chunks                                                           *)
(***************************************************************************)
\* where _transcribir_chunks continues once it holds the list
AfterChunks(list) == IF Len(list) = 0 THEN "Merging" ELSE "PerChunkTranscribe"

\* get_duration inside create_chunks, the early return, num_chunks
CreateChunks ==
    /\ pc = "Chunking"
    /\ \E d \in ProbeOutcomes :
         /\ chunk_probe' = IF IsRaised(d) THEN chunk_probe ELSE d
         /\ IF d = None THEN Emit("line") ELSE UNCHANGED stdout
         /\ IF IsRaised(d)
            THEN /\ Raise([type |-> d[1], message |-> d[2]], fs)
                 /\ UNCHANGED <<num_chunks, chunks>>
            ELSE IF Falsy(d)
            THEN /\ chunks' = <<audio_path[1]>>
                 /\ pc' = AfterChunks(chunks')
                 /\ UNCHANGED <<num_chunks, fs, result, error>>
            ELSE IF chunk_duration - overlap = 0
            THEN /\ Raise([type |-> "ZeroDivisionError",
                           message |-> "float division by zero"], fs)
                 /\ UNCHANGED <<num_chunks, chunks>>
            ELSE /\ num_chunks' = NumChunks(d[1], chunk_duration, overlap)
                 /\ chunks' = <<>>
                 /\ pc' = IF num_chunks' > 0 THEN "Materializing"
                                             ELSE AfterChunks(chunks')
                 /\ UNCHANGED <<fs, result, error>>
    /\ i' = 0
    /\ UNCHANGED <<inputs, peer, locals, planned, dropped, upload, created, exit_code>>

\* one iteration of the loop of create_chunks
Materialize ==
    /\ pc = "Materializing"
    /\ i < num_chunks
    /\ planned' = Append(planned, Window(i, chunk_probe[1], chunk_duration, overlap))
    /\ created' = created \cup {ChunkFile(i)}
    /\ i' = i + 1
    /\ \E outcome \in FfmpegOutcomes :
         CASE outcome = "ok" ->
                /\ chunks' = Append(chunks, ChunkFile(i))
                /\ fs' = fs \cup {ChunkFile(i)}
                /\ pc' = IF i' < num_chunks THEN "Materializing"
                                            ELSE AfterChunks(chunks')
                /\ UNCHANGED <<dropped, result, error, stdout>>
           [] outcome = "nonzero" ->
                /\ dropped' = dropped \cup {i}
                /\ Emit("line")
                /\ pc' = IF i' < num_chunks THEN "Materializing"
                                            ELSE AfterChunks(chunks)
                /\ UNCHANGED <<chunks, fs, result, error>>
           [] outcome = "missing" ->
                /\ Raise([type |-> "FileNotFoundError", message |-> "ffmpeg"],
                         fs \cup {ChunkFile(i)})
                /\ UNCHANGED <<chunks, dropped, stdout>>
    /\ UNCHANGED <<inputs, peer, locals, chunk_probe, num_chunks, upload, exit_code>>

(***************************************************************************)
(* _transcribir_chunks                                                     *)
(***************************************************************************)
\* one iteration of the loop: the request of _call_api(chunk_path, ...)
ChunkPost ==
    /\ pc = "PerChunkTranscribe"
    /\ inflight = {}
    /\ Emit("line")
    /\ Post(ChunkAt(chunks, k))
    /\ UNCHANGED <<inputs, peer, locals, chunking, k, texts, answers, created, exit_code>>

\* one iteration of the loop: the answer, texts.append and os.remove
ChunkAnswer ==
    /\ pc = "PerChunkTranscribe"
    /\ inflight # {}
    /\ \E r \in PostOutcomes(format) :
         /\ answers' = Append(answers, r)
         /\ IF r = NoResponse
            THEN /\ Raise([type |-> "RequestException", message |-> r.text], fs)
                 /\ UNCHANGED <<k, texts>>
            ELSE IF ApiOk(r)
            THEN /\ texts' = Append(texts, ApiText(r, format))
                 /\ fs' = fs \ {ChunkAt(chunks, k)}
                 /\ k' = k + 1
                 /\ pc' = IF k < Len(chunks) THEN "PerChunkTranscribe" ELSE "Merging"
                 /\ UNCHANGED <<result, error>>
            ELSE /\ Raise(ApiError(r), fs)
                 /\ UNCHANGED <<k, texts>>
    /\ inflight' = {}
    /\ UNCHANGED <<inputs, peer, locals, chunking, waited, uploads, sent, created, stdout,
                   exit_code>>

\* '\n\n'.join(texts) and the dict
Merge ==
    /\ pc = "Merging"
    /\ Return(ChunkedResult(texts, duration, chunks), fs)
    /\ UNCHANGED <<inputs, peer, locals, chunking, upload, created, stdout, exit_code>>

(***************************************************************************)
(* AudioProcessor.create_chunks called on its own, on an existing audio    *)
(* file, with any chunk_duration and overlap.  The run ends where the list *)
(* is returned to the caller or an exception leaves the method.            *)
(***************************************************************************)
PlanInputs ==
    {<<d, w, o>> : d \in 1..MaxPlanDuration, w \in 1..MaxPlanWindow,
                   o \in 0..MaxPlanWindow}
    \cup {<<d, CHUNK_DURATION, OVERLAP>> : d \in {200, 230, 600}}

PlanInit ==
    /\ command = "lib"
    /\ config_ok = TRUE
    /\ api_key = "gsk"
    /\ ffmpeg_present \in BOOLEAN
    /\ \E t \in PlanInputs :
         /\ probe_values = {t[1]}
         /\ chunk_duration = t[2]
         /\ overlap = t[3]
    /\ src = "path"
    /\ fileobj = "none"
    /\ input_ext = ".mp3"
    /\ chunk_request = TRUE
    /\ format = "json"
    /\ fs = {InputFile}
    /\ language = "es"
    /\ prompt = ""
    /\ pc = "Chunking"
    /\ filepath = Some(InputFile)
    /\ chunk_if_needed = TRUE
    /\ audio_path = Some(InputFile)
    /\ duration = None
    /\ size = None
    /\ FreshRest
    /\ NoPeer

PlanNext ==
    \/ CreateChunks
    \/ Materialize

PlanSpec == PlanInit /\ [][PlanNext]_vars

(***************************************************************************)
(* cli.py: one run of the process.                                         *)
(***************************************************************************)
\* print(json.dumps(...)) followed by sys.exit(code) or the end of main
EmitJsonAndExit(code) ==
    /\ Emit("json")
    /\ exit_code' = Some(code)
    /\ pc' = "Exited"

\* main: the argument count and the dispatch on sys.argv[1]
Main ==
    /\ pc = "Main"
    /\ CASE command \in {"none", "other"} ->
              /\ EmitJsonAndExit(1)
         [] command = "transcribe" ->
              /\ pc' = "TranscribeCommand"
              /\ UNCHANGED <<stdout, exit_code>>
         [] command = "test_api" ->
              /\ pc' = "TestApiCommand"
              /\ UNCHANGED <<stdout, exit_code>>
    /\ UNCHANGED <<inputs, peer, locals, chunking, upload, created, fs, result, error>>

\* transcribe_command up to the call of trans.transcribir
TranscribeCommand ==
    /\ pc = "TranscribeCommand"
    /\ IF ~config_ok
       THEN RaiseEarly([type |-> "ValueError", message |-> "Uso: cli.py transcribe"], fs)
       ELSE IF InputFile \notin fs
       THEN RaiseEarly([type |-> "FileNotFoundError",
                        message |-> "Archivo no encontrado"], fs)
       ELSE IF KeyMissing(api_key)
       THEN RaiseEarly([type |-> "ValueError", message |-> "API Key es requerida"], fs)
       ELSE /\ pc' = "Resolving"
            /\ UNCHANGED <<fs, result, error>>
    /\ UNCHANGED <<inputs, peer, locals, chunking, upload, created, stdout, exit_code>>

\* transcribe_command after trans.transcribir has returned
TranscribeReturn ==
    /\ pc = "Done"
    /\ command = "transcribe"
    /\ IF InputFile \in fs
       THEN /\ EmitJsonAndExit(0)
            /\ UNCHANGED <<fs, result, error>>
       ELSE /\ RaiseEarly([type |-> "FileNotFoundError", message |-> "stat"], fs)
            /\ UNCHANGED <<stdout, exit_code>>
    /\ UNCHANGED <<inputs, peer, locals, chunking, upload, created>>

\* test_api_command
TestApiCommand ==
    /\ pc = "TestApiCommand"
    /\ IF ~config_ok
       THEN /\ RaiseEarly([type |-> "ValueError", message |-> "Uso: cli.py test_api"], fs)
            /\ UNCHANGED <<stdout, exit_code>>
       ELSE IF KeyMissing(api_key)
       THEN /\ error' = Some([type |-> "ValueError", message |-> "API Key es requerida"])
            /\ EmitJsonAndExit(1)
            /\ UNCHANGED <<fs, result>>
       ELSE /\ EmitJsonAndExit(0)
            /\ UNCHANGED <<fs, result, error>>
    /\ UNCHANGED <<inputs, peer, locals, chunking, upload, created>>

\* main: except Exception
MainExcept ==
    /\ pc = "Failed"
    /\ command # "lib"
    /\ EmitJsonAndExit(1)
    /\ UNCHANGED <<inputs, peer, locals, chunking, upload, created, fs, result, error>>

\* python cli.py ..., with the configuration on stdin or in the arguments
CliInit ==
    /\ command \in {"none", "transcribe", "test_api", "other"}
    /\ config_ok \in BOOLEAN
    /\ api_key \in {"", "gsk"}
    /\ ffmpeg_present \in BOOLEAN
    /\ probe_values = Durations
    /\ chunk_duration = CHUNK_DURATION
    /\ overlap = OVERLAP
    /\ src = "path"
    /\ fileobj = "none"
    /\ input_ext \in {".mp3", ".mp4"}
    /\ chunk_request = TRUE
    /\ format = "json"
    /\ fs \in {{}, {InputFile}}
    /\ language = "es"
    /\ prompt = ""
    /\ pc = "Main"
    /\ FreshLocals
    /\ FreshRest
    /\ NoPeer

CliNext ==
    \/ Main
    \/ TranscribeCommand
    \/ TestApiCommand
    \/ Transcribir
    \/ ExtractAudio
    \/ GetDuration
    \/ SizeDecision
    \/ DirectPost
    \/ ApiWait
    \/ DirectAnswer
    \/ CreateChunks
    \/ Materialize
    \/ ChunkPost
    \/ ChunkAnswer
    \/ Merge
    \/ TranscribeReturn
    \/ MainExcept

CliSpec == CliInit /\ [][CliNext]_vars

(***************************************************************************)
(* _call_api on the direct path, for any language, prompt and format.      *)
(***************************************************************************)
Languages == {"", "auto", "es", "en"}
Prompts == {"", "contexto"}

ApiInit ==
    /\ command = "lib"
    /\ config_ok = TRUE
    /\ api_key = "gsk"
    /\ ffmpeg_present = TRUE
    /\ probe_values = Durations
    /\ chunk_duration = CHUNK_DURATION
    /\ overlap = OVERLAP
    /\ src = "path"
    /\ fileobj = "none"
    /\ input_ext = ".mp3"
    /\ chunk_request = FALSE
    /\ format \in {"json", "verbose_json"}
    /\ fs \in {{}, {InputFile}}
    /\ language \in Languages
    /\ prompt \in Prompts
    /\ pc = "DirectTranscribe"
    /\ filepath = Some(InputFile)
    /\ chunk_if_needed = chunk_request
    /\ audio_path = Some(InputFile)
    /\ duration = None
    /\ size = None
    /\ FreshRest
    /\ NoPeer

ApiNext ==
    \/ DirectPost
    \/ ApiWait
    \/ DirectAnswer

ApiSpec == ApiInit /\ [][ApiNext]_vars

(***************************************************************************)
(* Two calls at the same time on the same path.  The first call is the one *)
(* modelled above; the second is transcribir(path, chunk_if_needed=False)  *)
(* on an audio file, which takes the direct path.                          *)
(***************************************************************************)
\* everything that belongs to the first call
first == <<inputs, locals, chunking, upload, fs, pc, result, error, created,
           stdout, exit_code>>

\* transcribir of the second call: the path must exist
PeerTranscribir ==
    /\ peer_pc = "Resolving"
    /\ peer_pc' = IF InputFile \in fs THEN "Probing" ELSE "Failed"
    /\ UNCHANGED <<first, peer_reading>>

\* get_duration of the second call: ffprobe reads the file, or fails, and
\* the method returns either way
PeerGetDuration ==
    /\ peer_pc = "Probing"
    /\ peer_pc' = "SizeDecision"
    /\ UNCHANGED <<first, peer_reading>>

\* os.path.getsize of the second call, which raises when the file is gone
PeerSizeDecision ==
    /\ peer_pc = "SizeDecision"
    /\ peer_pc' = IF InputFile \in fs THEN "DirectTranscribe" ELSE "Failed"
    /\ UNCHANGED <<first, peer_reading>>

\* _call_api of the second call: open(filepath, 'rb') and the request
PeerPost ==
    /\ peer_pc = "DirectTranscribe"
    /\ IF InputFile \in fs
       THEN peer_pc' = "Uploading" /\ peer_reading' = {InputFile}
       ELSE peer_pc' = "Failed" /\ UNCHANGED peer_reading
    /\ UNCHANGED first

\* _call_api of the second call: the file is closed, the answer read
PeerAnswer ==
    /\ peer_pc = "Uploading"
    /\ peer_reading' = {}
    /\ \E r \in PostOutcomes("json") :
         peer_pc' = IF r # NoResponse /\ ApiOk(r) THEN "Done" ELSE "Failed"
    /\ UNCHANGED first

\* two calls on one Transcriptor and one existing audio file
ConcInit ==
    /\ command = "lib"
    /\ config_ok = TRUE
    /\ api_key = "gsk"
    /\ ffmpeg_present \in BOOLEAN
    /\ probe_values = Durations
    /\ chunk_duration = CHUNK_DURATION
    /\ overlap = OVERLAP
    /\ src = "path"
    /\ fileobj = "none"
    /\ input_ext = ".mp3"
    /\ chunk_request \in BOOLEAN
    /\ format = "json"
    /\ fs = {InputFile}
    /\ language = "es"
    /\ prompt = ""
    /\ pc = "Constructing"
    /\ FreshLocals
    /\ FreshRest
    /\ peer_pc = "Resolving"
    /\ peer_reading = {}

ConcNext ==
    \/ Construct
    \/ Transcribir
    \/ ExtractAudio
    \/ GetDuration
    \/ SizeDecision
    \/ DirectPost
    \/ ApiWait
    \/ DirectAnswer
    \/ CreateChunks
    \/ Materialize
    \/ ChunkPost
    \/ ChunkAnswer
    \/ Merge
    \/ PeerTranscribir
    \/ PeerGetDuration
    \/ PeerSizeDecision
    \/ PeerPost
    \/ PeerAnswer

ConcSpec == ConcInit /\ [][ConcNext]_vars

Next ==
    \/ Construct
    \/ Transcribir
    \/ TranscribirFileobject
    \/ TranscribirUrl
    \/ ExtractAudio
    \/ GetDuration
    \/ SizeDecision
    \/ DirectPost
    \/ ApiWait
    \/ DirectAnswer
    \/ CreateChunks
    \/ Materialize
    \/ ChunkPost
    \/ ChunkAnswer
    \/ Merge

Spec == Init /\ [][Next]_vars

\* the code is sequential: whichever statement is next is executed, and every
\* external call returns (subprocess.run ends, requests.post answers or
\* times out)
FairSpec == Spec /\ WF_vars(Next)

(***************************************************************************)
(* Properties.                                                             *)
(***************************************************************************)
Ended == pc \in {"Done", "Failed"}

\* the last answer received was a failure of the service call
LastCallFailed == answers # <<>> /\ ~ApiOk(answers[Len(answers)])

\* a segment file of create_chunks
IsChunkFile(p) == p[1] = "chunk"

\* the call went through the loop of create_chunks
Materialized == planned # <<>>

\* C1: when the call ends in Done or in Failed, no temporary artifact the call
\* created (buffered stream, downloaded copy, extracted audio, chunk segment)
\* still exists.
C1_NoTemporaryLeft == Ended => created \cap fs = {}

\* C2: in the chunked path with materialized chunks, when the service call
\* fails on some chunk the call fails, returns no result, and the segment
\* files of all chunks have been removed.
C2_FailedChunkCallRemovesSegments ==
    (Ended /\ Materialized /\ LastCallFailed) =>
        /\ pc = "Failed"
        /\ result = None
        /\ \A p \in fs : ~IsChunkFile(p)

\* C3: a file the caller supplied as a path is never deleted by the call.
C3_CallerFileKept == (src = "path" /\ filepath # None) => InputFile \in fs

\* _transcribir_chunks was entered
ChunkedPath ==
    \/ pc \in {"Chunking", "Materializing", "PerChunkTranscribe", "Merging"}
    \/ chunks # <<>>
    \/ planned # <<>>

\* C4: a returned result's chunk count is the number of uploads of the call,
\* which in the chunked path is the number of materialized chunks (planned
\* windows minus dropped ones).
C4_ChunkCountIsUploadsAndMaterialized ==
    result # None =>
        /\ result[1].chunks = Len(uploads)
        /\ ChunkedPath => result[1].chunks = Len(planned) - Cardinality(dropped)

\* C5: every returned result has a chunk count of at least 1 and success set,
\* also when some or all materializations failed.
C5_ResultHasAtLeastOneChunk ==
    result # None => (result[1].chunks >= 1 /\ result[1].success)

\* C6: the chunked path is entered exactly when the working file is larger
\* than 25 MB and chunking is allowed; otherwise create_chunks is never
\* called, at most one request is posted, it is for the whole working file,
\* and a returned result took exactly one request and reports one chunk.
C6_ChunkedIffLargeAndAllowed ==
    size # None =>
        LET large == size[1] > 25 * 1024 * 1024
        IN  /\ ChunkedPath <=> (large /\ chunk_if_needed)
            /\ ~(large /\ chunk_if_needed) =>
                  /\ chunk_probe = None /\ created \subseteq {TmpFile, WavFile}
                  /\ Len(uploads) <= 1
                  /\ \A n \in 1..Len(uploads) : uploads[n] = audio_path[1]
                  /\ pc = "Done" => (Len(uploads) = 1 /\ result[1].chunks = 1)

\* a large working file transcribed whole because chunking was disallowed
C6_Witness ==
    /\ pc = "Done"
    /\ size[1] > 25 * 1024 * 1024
    /\ ~chunk_if_needed
    /\ uploads = <<InputFile>>
    /\ result[1].chunks = 1

\* C7: when the probe of _transcribir_archivo yields no duration, no window
\* is planned, no segment is materialized, and a returned result took exactly
\* one request and reports one chunk.
C7_UnknownDurationPlansNothing ==
    (duration = None /\ size # None) =>
        /\ planned = <<>>
        /\ \A p \in created : ~IsChunkFile(p)
        /\ pc = "Done" => (Len(uploads) = 1 /\ result[1].chunks = 1)

\* the text _call_api returned for the n-th request
Obtained(n) == ApiText(answers[n], format)

\* t1 + "\n\n" + t2 + ... + "\n\n" + tn
RECURSIVE Concatenated(_)
Concatenated(n) ==
    IF n = 0 THEN ""
    ELSE IF n = 1 THEN Obtained(1)
    ELSE Concatenated(n - 1) \o "\n\n" \o Obtained(n)

\* C8: when the chunked path returns a result, the n-th request was for the
\* n-th chunk and the text is the texts obtained, in that order, separated
\* by "\n\n", however long each request blocked.
C8_MergingLaw ==
    (pc = "Done" /\ ChunkedPath) =>
        /\ Len(answers) = Len(chunks)
        /\ \A n \in 1..Len(chunks) : uploads[n] = chunks[n]
        /\ result[1].text = Concatenated(Len(chunks))

\* three chunks answered with different texts, the last after blocking
C8_Witness ==
    /\ pc = "Done"
    /\ Len(chunks) = 3
    /\ answers[1].text = "dos" /\ answers[2].text = "uno" /\ answers[3].text = "dos"
    /\ waited > 0
    /\ result[1].text = "dos\n\nuno\n\ndos"

\* C9: in the chunked path requests are posted one at a time, for the chunks
\* in list order, each only after the previous one was answered, and none
\* before create_chunks has finished its loop.
C9_SequentialUploads ==
    ChunkedPath =>
        /\ Cardinality(inflight) <= 1
        /\ Len(uploads) <= Len(chunks)
        /\ \A n \in 1..Len(uploads) : uploads[n] = chunks[n]
        /\ Len(answers) <= Len(uploads) /\ Len(uploads) <= Len(answers) + 1
        /\ inflight = (IF Len(uploads) > Len(answers)
                       THEN {uploads[Len(uploads)]} ELSE {})
        /\ uploads # <<>> =>
              (i = num_chunks /\ (~Falsy(chunk_probe) => Len(planned) = num_chunks))
        /\ pc \in {"Chunking", "Materializing"} => (uploads = <<>> /\ inflight = {})

\* the second of three chunks is pending, the first has been answered
C9_Witness ==
    /\ pc = "PerChunkTranscribe"
    /\ Len(chunks) = 3
    /\ inflight = {chunks[2]}
    /\ Len(answers) = 1
    /\ uploads = <<chunks[1], chunks[2]>>

\* an answer that carries a status other than 200
HttpFailure(r) == r # NoResponse /\ r.status # 200

\* C10: an answer with a status other than 200 is the last event of the call:
\* the call has failed with an error carrying the status and the body, no
\* further request is posted, and no result is returned.
C10_Non200FailsImmediately ==
    \A n \in 1..Len(answers) :
        HttpFailure(answers[n]) =>
            /\ n = Len(answers)
            /\ Len(uploads) = n
            /\ inflight = {}
            /\ pc = "Failed"
            /\ result = None
            /\ error = Some([type |-> "Exception",
                             message |-> "Error de API Groq: "
                                 \o ToString(answers[n].status)
                                 \o " - " \o answers[n].text])

\* status 429 on chunk 2 of 3, after a text was obtained for chunk 1
C10_Witness ==
    /\ pc = "Failed"
    /\ Len(chunks) = 3
    /\ Len(answers) = 2
    /\ answers[2].status = 429
    /\ texts = <<"uno">>
    /\ uploads = <<chunks[1], chunks[2]>>

(***************************************************************************)
(* Properties of the chunk plan, under PlanSpec.                           *)
(***************************************************************************)
\* create_chunks got a duration > 0 and chunk_duration > overlap >= 0
ValidPlanInput ==
    /\ chunk_probe # None
    /\ chunk_probe[1] > 0
    /\ chunk_duration > overlap
    /\ overlap >= 0

\* the loop of create_chunks has run to its end and the list was returned
PlanComplete == pc \in {"PerChunkTranscribe", "Merging"} /\ ~Falsy(chunk_probe)

Start(n) == planned[n][1]
End(n) == planned[n][2]

\* C11: for duration > 0 and chunk_duration > overlap >= 0 the plan has
\* ceil(duration / (chunk_duration - overlap)) windows, the last one ends at
\* duration, and every window has 0 <= start < end <= duration and a length
\* of at most chunk_duration; 600/240/15 gives (0,240),(225,465),(450,600)
\* and 200/240/15 gives (0,200).
C11_PlanCountAndBounds ==
    ValidPlanInput =>
        LET d == chunk_probe[1]
            stride == chunk_duration - overlap
        IN  /\ num_chunks * stride >= d /\ (num_chunks - 1) * stride < d
            /\ Len(planned) <= num_chunks
            /\ \A n \in 1..Len(planned) :
                  /\ 0 <= Start(n) /\ Start(n) < End(n) /\ End(n) <= d
                  /\ End(n) - Start(n) <= chunk_duration
            /\ PlanComplete =>
                  /\ Len(planned) = num_chunks
                  /\ End(Len(planned)) = d
                  /\ (d = 600 /\ chunk_duration = 240 /\ overlap = 15) =>
                        planned = <<<<0, 240>>, <<225, 465>>, <<450, 600>>>>
                  /\ (d = 200 /\ chunk_duration = 240 /\ overlap = 15) =>
                        planned = <<<<0, 200>>>>

\* scenario A, planned to the end
C11_Witness ==
    /\ PlanComplete
    /\ chunk_probe = Some(600) /\ chunk_duration = 240 /\ overlap = 15
    /\ Len(planned) = 3

\* C12: two consecutive windows that are both non-final overlap by exactly
\* the overlap.
C12_NonFinalPairsOverlapExactly ==
    ValidPlanInput =>
        \A n \in 1..(Len(planned) - 1) :
            n + 1 < num_chunks => End(n) - Start(n + 1) = overlap

\* C13: in a complete plan exactly one window, the last, ends at the
\* duration, and no window starts at or after it.
C13_ExactlyOneWindowReachesEnd ==
    (ValidPlanInput /\ PlanComplete) =>
        /\ End(Len(planned)) = chunk_probe[1]
        /\ Cardinality({n \in 1..Len(planned) : End(n) = chunk_probe[1]}) = 1
        /\ \A n \in 1..Len(planned) : Start(n) < chunk_probe[1]

\* C14: every second of the file lies in a planned window and consecutive
\* windows leave no gap.
C14_FullCoverage ==
    ValidPlanInput =>
        /\ \A n \in 1..Len(planned) : n = 1 => Start(n) = 0
        /\ \A n \in 1..(Len(planned) - 1) : Start(n + 1) <= End(n)
        /\ PlanComplete =>
              \A t \in 0..(chunk_probe[1] - 1) :
                  \E n \in 1..Len(planned) : Start(n) <= t /\ t < End(n)

\* 8 s in windows of 4 s that share 1 s
C14_Witness ==
    /\ PlanComplete
    /\ planned = <<<<0, 4>>, <<3, 7>>, <<6, 8>>>>

\* C15: when chunk_duration - overlap is not positive create_chunks is
\* rejected with an error: nothing is planned or materialized and no list
\* is returned.
C15_NonPositiveStrideRejected ==
    (~Falsy(chunk_probe) /\ chunk_duration - overlap <= 0) =>
        /\ pc = "Failed"
        /\ planned = <<>>
        /\ \A p \in created : ~IsChunkFile(p)

(***************************************************************************)
(* Failures of the environment and of validation, under Spec.              *)
(***************************************************************************)
\* ffmpeg could not be started for the window just planned
MaterializeRaised ==
    /\ pc = "Failed"
    /\ planned # <<>>
    /\ error # None
    /\ error[1].type = "FileNotFoundError"

\* the materialization of window n (counted from 0) failed
MaterializationFailed(n) ==
    \/ n \in dropped
    \/ MaterializeRaised /\ n = Len(planned) - 1

\* C16: when the materialization of a window fails, for any kind of failure
\* of ffmpeg, the window is dropped and its segment file removed, the later
\* windows are still attempted, and the surviving segments keep plan order.
C16_FailedWindowDroppedAndLoopContinues ==
    \A n \in 0..(Len(planned) - 1) :
        MaterializationFailed(n) =>
            /\ \A j \in 1..Len(chunks) : chunks[j] # ChunkFile(n)
            /\ ChunkFile(n) \notin fs
            /\ pc # "Materializing" => Len(planned) = num_chunks
            /\ \A j \in 1..(Len(chunks) - 1) : chunks[j][2] < chunks[j + 1][2]

\* C17: with ffmpeg missing the call fails before any processing: it never
\* ends in Done, creates no temporary file and posts no request.
C17_MissingToolFailsBeforeProcessing ==
    ~ffmpeg_present =>
        /\ pc # "Done"
        /\ created = {}
        /\ uploads = <<>>

ValidationMessages ==
    {"API Key es requerida", "Archivo no encontrado", "Tipo de archivo no soportado"}

\* the call ended with one of the three validation errors
ValidationFailure ==
    /\ pc = "Failed"
    /\ error # None
    /\ error[1].message \in ValidationMessages

\* neither ffmpeg nor ffprobe has been started
NoToolRun ==
    /\ WavFile \notin created
    /\ audio_path = None
    /\ duration = None
    /\ size = None
    /\ chunk_probe = None
    /\ planned = <<>>

\* C18: when a validation error (empty API key, missing path, unsupported
\* input type) reaches the caller no external tool has run, no request has
\* been posted and no temporary file of the call remains.
C18_ValidationFailsClean ==
    ValidationFailure =>
        /\ NoToolRun
        /\ uploads = <<>>
        /\ created \cap fs = {}

(***************************************************************************)
(* The command line, under CliSpec.                                        *)
(***************************************************************************)
\* C19: a run of transcribe or test_api leaves exactly one JSON object on
\* standard output and nothing else, and its exit code is not 0 when an
\* error occurred.
C19_ExactlyOneJsonOnStdout ==
    (pc = "Exited" /\ command \in {"transcribe", "test_api"}) =>
        /\ stdout = <<"json">>
        /\ error # None => exit_code # Some(0)

(***************************************************************************)
(* The state machine of one call, under FairSpec.                          *)
(***************************************************************************)
\* the steps of one call; Materializing is the loop inside Chunking, and the
\* direct path builds its result in the step that receives the answer
Transitions ==
    {<<"Constructing", "Resolving">>, <<"Resolving", "Classifying">>,
     <<"Classifying", "Probing">>, <<"Probing", "SizeDecision">>,
     <<"SizeDecision", "DirectTranscribe">>, <<"SizeDecision", "Chunking">>,
     <<"DirectTranscribe", "Done">>,
     <<"Chunking", "Materializing">>, <<"Chunking", "PerChunkTranscribe">>,
     <<"Materializing", "PerChunkTranscribe">>, <<"Materializing", "Merging">>,
     <<"PerChunkTranscribe", "Merging">>, <<"Merging", "Done">>}

\* the steps that can raise
RaisingSteps ==
    {"Constructing", "Resolving", "Classifying", "DirectTranscribe",
     "Materializing", "PerChunkTranscribe"}

StepAllowed ==
    /\ pc' # pc =>
          \/ <<pc, pc'>> \in Transitions
          \/ pc' = "Failed" /\ pc \in RaisingSteps
    /\ (pc' = "Failed" /\ pc # "Failed") =>
          (error = None /\ error' # None /\ result' = None)
    /\ (pc' = "Done" /\ pc # "Done") => (result' # None /\ error' = None)

\* C20: a call moves only along Resolving, Classifying, Probing,
\* SizeDecision, then DirectTranscribe or Chunking and the PerChunkTranscribe
\* loop, then Merging, then Done; it eventually ends in Done or Failed and
\* stays there; and Failed is entered only by a step that raised.
C20_StateMachine ==
    /\ [][StepAllowed]_vars
    /\ <>Ended
    /\ [](pc = "Done" => [](pc = "Done"))
    /\ [](pc = "Failed" => [](pc = "Failed"))

\* a call that went three times round the loop and ended in Done
C20_Witness ==
    /\ pc = "Done"
    /\ Len(planned) = 3
    /\ Len(texts) = 3

(***************************************************************************)
(* Extraction, retries, sources, probes and the result, under Spec.        *)
(***************************************************************************)
\* extract_audio was started and the call ended without a working file
ExtractionFailed ==
    /\ pc = "Failed"
    /\ WavFile \in created
    /\ audio_path = None

\* C22: for a video the extracted file is the working file of every later
\* step and the caller's file is never uploaded; when the extraction fails,
\* for whatever reason, its output file is removed, the error reaches the
\* caller and no request is posted.
C22_ExtractedAudioIsWorkingFile ==
    /\ (filepath # None /\ is_video(filepath[1]) /\ audio_path # None) =>
          /\ audio_path = Some(WavFile)
          /\ \A n \in 1..Len(uploads) :
                uploads[n] = WavFile \/ IsChunkFile(uploads[n])
    /\ ExtractionFailed =>
          /\ WavFile \notin fs
          /\ error # None
          /\ uploads = <<>>

\* C23: nothing is retried: every planned window is materialized once, no
\* path is posted twice, the requests never outnumber the artifacts (one on
\* the direct path), and an answer that is a failure or a timeout is the last
\* thing the call receives.
C23_NoRetry ==
    /\ Len(planned) <= num_chunks
    /\ \A m, n \in 1..Len(planned) : m < n => planned[m][1] < planned[n][1]
    /\ Cardinality({p \in created : IsChunkFile(p)}) = Len(planned)
    /\ \A m, n \in 1..Len(uploads) : m # n => uploads[m] # uploads[n]
    /\ Len(uploads) <= (IF ChunkedPath THEN Len(chunks) ELSE 1)
    /\ Len(answers) <= Len(uploads)
    /\ \A n \in 1..(Len(answers) - 1) : ApiOk(answers[n])
    /\ LastCallFailed => (pc = "Failed" /\ inflight = {} /\ Len(uploads) = Len(answers))

\* a request on the direct path that timed out and was not posted again
C23_Witness ==
    /\ pc = "Failed"
    /\ ~ChunkedPath
    /\ uploads = <<InputFile>>
    /\ answers = <<NoResponse>>

\* C24: a stream or URL source is first written to a new temporary file,
\* before any tool runs or any request is posted, and that file is processed
\* with chunking allowed whatever the caller asked for: above 25 MB the
\* chunked path is taken.
C24_TemporarySourceAlwaysChunkable ==
    src \in {"stream", "url"} =>
        /\ TmpFile \notin created => (NoToolRun /\ uploads = <<>> /\ filepath = None)
        /\ filepath # None =>
              /\ filepath = Some(TmpFile)
              /\ TmpFile \in created
              /\ chunk_if_needed
        /\ (size # None /\ size[1] > 25 * 1024 * 1024) => ChunkedPath
        /\ (size # None /\ size[1] <= 25 * 1024 * 1024) => ~ChunkedPath

\* a large stream whose caller asked for no chunking, transcribed in chunks
C24_Witness ==
    /\ src = "stream"
    /\ ~chunk_request
    /\ pc = "Done"
    /\ size[1] > 25 * 1024 * 1024
    /\ Len(planned) = 2
    /\ Len(uploads) = 2

\* C25: the duration probe never raises: whatever ffprobe does, the step
\* after the probe of _transcribir_archivo is the size decision, the probe
\* inside create_chunks ends the call only through a duration it returned,
\* and no error that reaches the caller comes from the probe.
C25_ProbeNeverRaises ==
    /\ [][(pc = "Probing" /\ pc' # pc) => (pc' = "SizeDecision" /\ error' = None)]_vars
    /\ [][(pc = "Chunking" /\ pc' = "Failed") => ~Falsy(chunk_probe')]_vars
    /\ [](error # None => error[1].message # "ffprobe")

\* the probe failed and the call stands at the size decision
C25_Witness ==
    /\ pc = "SizeDecision"
    /\ audio_path # None
    /\ duration = None

\* C26: in the chunked path the duration of the returned result is the value
\* probed by _transcribir_archivo, and it is the value the windows were
\* planned from: never unknown when windows were planned, never another one.
C26_ResultDurationIsPlanDuration ==
    (result # None /\ ChunkedPath) =>
        /\ result[1].duration = duration
        /\ planned # <<>> => result[1].duration = chunk_probe

(***************************************************************************)
(* The fields of a request, under ApiSpec.                                 *)
(***************************************************************************)
\* the names of the fields of the n-th request
Fields(n) == {f[1] : f \in sent[n]}

\* C27: every request posted carries model and response_format; it carries
\* language exactly when the language is non-empty and not "auto", and
\* prompt exactly when the prompt is non-empty.
C27_RequestFields ==
    /\ Len(sent) = Len(uploads)
    /\ \A n \in 1..Len(sent) :
          /\ {"model", "response_format"} \subseteq Fields(n)
          /\ Fields(n) \subseteq {"model", "response_format", "language", "prompt"}
          /\ "language" \in Fields(n) <=> (language # "" /\ language # "auto")
          /\ "prompt" \in Fields(n) <=> prompt # ""
          /\ <<"response_format", format>> \in sent[n]

\* a request with language "auto" and a prompt: prompt sent, language not
C27_Witness ==
    /\ language = "auto"
    /\ prompt = "contexto"
    /\ pc = "Done"
    /\ Len(sent) = 1
    /\ Fields(1) = {"model", "response_format", "prompt"}

(***************************************************************************)
(* Two calls at the same time, under ConcSpec.                             *)
(***************************************************************************)
\* C21: of two calls running at the same time, also on the same path, none
\* deletes a file that the other one is still reading; what a call creates
\* is a temporary file of its own.
C21_NoFileDeletedUnderReader ==
    [][/\ \A p \in fs' \ fs : p \in created'
       /\ \A p \in fs \ fs' : p \notin peer_reading]_vars

====
